---- MODULE Spec2Model ----
(***************************************************************************)
(* Model of the trace-driven load generator src/bench/run_bench.py: main   *)
(* stages the PUT payloads (pre_create_put_files), then execute_trace      *)
(* walks the trace, waits until each record's target time, starts one      *)
(* thread per record (put_object / get_object / delete_object) and joins   *)
(* them all.  The threads share the dictionaries object_mappings and       *)
(* prepared_files and the files under ./temp; the accesses to those are    *)
(* steps of their own, so that every interleaving of the threads is        *)
(* explored (steps are merged only where a comment says why).              *)
(* The cluster (coordinator and volume servers) is the environment: each   *)
(* response is a nondeterministic choice.                                  *)
(***************************************************************************)
EXTENDS Integers, Sequences, FiniteSets, TLC

(* ---------------------------- bounds ----------------------------------- *)
\* longest trace file, in lines
MaxLines == 3
\* largest timestamp_ms of a record
MaxTs == 2
\* most PUT records in a trace whose operations overlap
MaxPuts == 2
\* most the clock advances between two readings (and most a sleep oversleeps)
MaxDelta == 1
\* largest size_bytes of a PUT record
MaxSize == 1
\* most answers of the cluster, in one run, that are not the plain success
MaxFaults == 1
\* largest size_bytes of generate_patterned_content (two chunks and one byte)
MaxContent == 33
\* largest range_start and range_end of a verified GET
MaxOffset == 17
\* most bytes of a transfer whose throughput is computed
MaxBytes == 3
\* largest elapsed time of a transfer, in clock ticks (the least is -1)
MaxElapsed == 2
\* longest input file of the filter, in lines
MaxFilterLines == 4
\* largest range_start and range_end of a GET record
MaxRange == 1
\* largest size_bytes of a PUT record in the traces that PUT one id twice
MaxResize == 2

Ids == {"a", "b"}
Urls == {"vol1"}

PUT == "REST.PUT.OBJECT"
GET == "REST.GET.OBJECT"
DELETE == "REST.DELETE.OBJECT"

(* ---------------------------- trace lines ------------------------------ *)
\* A line after line.strip().split(): nparts fields; ts, size, rs, re are the
\* integer fields, bad names the one int() cannot parse ("none": all parse).
Line(n, t, o, i, s, b) ==
    [nparts |-> n, ts |-> t, op |-> o, id |-> i, size |-> s, rs |-> 0, re |-> 0, bad |-> b]

\* Records that are all due at once: the threads of a trace of these overlap in
\* every way the threads of any trace can (a later timestamp only delays a start).
ExecLines ==
    {Line(4, 0, PUT, i, s, "none") : i \in Ids, s \in 1..MaxSize}
    \cup {Line(3, 0, o, i, 0, "none") : i \in Ids, o \in {GET, DELETE}}

\* Records with every timestamp, in every order, whose threads end at once (no
\* object is ever PUT), and the lines execute_trace passes over.  The integer
\* fields of every line parse.
LightLines ==
    {Line(3, t, GET, "a", 0, "none") : t \in 0..MaxTs}
    \cup {Line(1, 0, "", "", 0, "none"),                 \* fewer than 3 fields
          Line(3, 0, PUT, "a", 0, "none"),               \* PUT without a size
          Line(3, 0, "REST.HEAD.OBJECT", "a", 0, "none"),\* not an operation
          Line(6, 0, GET, "a", 0, "none")}               \* GET of the range 0-0

Traces(lines) == UNION {[1..n -> lines] : n \in 1..MaxLines}

NumPuts(tr) == Cardinality({k \in 1..Len(tr) : tr[k].op = PUT})

\* Object ids are interchangeable: the first record of a trace names "a".
TraceSet ==
    {tr \in Traces(ExecLines) : tr[1].id = "a" /\ NumPuts(tr) <= MaxPuts}
    \cup Traces(LightLines)

\* Lines with an integer field that int() cannot parse: the timestamp of a GET,
\* the size of a PUT, the range of a GET.
BadIntLines ==
    {Line(3, 0, GET, "a", 0, "ts"),
     Line(4, 0, PUT, "a", 1, "size"),
     Line(6, 0, GET, "a", 0, "range")}

\* a record that parses, before or after lines that may not
PlainLines == {Line(3, 0, GET, "a", 0, "none"), Line(4, 0, PUT, "b", 1, "none")}

\* a GET line of n fields: timestamp, operation, id, a fourth field, range_start
\* (n >= 5), range_end (n >= 6)
RangeLine(n, s, e) == [Line(n, 0, GET, "a", 0, "none") EXCEPT !.rs = s, !.re = e]

RangedGets ==
    {RangeLine(6, s, e) : s \in 0..MaxRange, e \in 0..MaxRange}
    \cup {RangeLine(5, s, 0) : s \in 0..MaxRange}
    \cup {RangeLine(3, 0, 0)}

\* a PUT of "a" and then GETs of it, with and without range fields
RangeTraces ==
    {<<Line(4, 0, PUT, "a", 1, "none")>> \o g :
        g \in UNION {[1..n -> RangedGets] : n \in 1..(MaxLines - 1)}}

\* two PUT records of one id, of sizes that may differ
ResizeTraces ==
    {<<Line(4, 0, PUT, "a", s, "none"), Line(4, 0, PUT, "a", r, "none")>> :
        s \in 1..MaxResize, r \in 1..MaxResize}

\* TraceSet, the traces in which a field of some line does not parse, and the
\* traces with range fields and with sizes that differ
AnyTraceSet ==
    TraceSet \cup Traces(BadIntLines \cup PlainLines) \cup RangeTraces \cup ResizeTraces

(* ---------------------------- state ------------------------------------ *)
VARIABLES
    trace,            \* the lines of the trace file
    object_mappings,  \* object_id -> <<fid, public_url>>
    prepared_files,   \* object ids that have an entry in prepared_files
    files,            \* ./temp: object_id -> size of the file ./temp/<object_id>
    main_pc,          \* position of the main thread
    li,               \* index of the line the for loop of execute_trace is at
    ji,               \* index of the thread the join loop is at
    start_time,       \* execute_trace's start_time (the origin); NoTime = None
    wait_time,        \* execute_trace's wait_time, in ms
    target_time,      \* execute_trace's target_time
    now,              \* the clock, in ms, as of its last reading
    slept,            \* history: the current iteration called time.sleep
    threads,          \* execute_trace's threads, with each thread's locals
    exit_code,        \* -1 while the process runs
    faults,           \* answers of the cluster so far that were not the plain success
    last_write,       \* history: the last change of each id's mapping entry
    infile,           \* rm_non_existing.py: the lines of the input file
    line_no,          \* rm_non_existing.py: index of the line `for line in infile` is at
    existing_objects, \* rm_non_existing.py: the ids in existing_objects
    outfile,          \* rm_non_existing.py: the lines written to the output file
    call              \* a function applied on its own: its arguments and its result

\* the state of run_bench.py
run_vars == <<trace, object_mappings, prepared_files, files, main_pc, li, ji,
              start_time, wait_time, target_time, now, slept, threads, exit_code, faults,
              last_write>>

\* the state of the filter and of the function applied on its own
tool_vars == <<infile, line_no, existing_objects, outfile, call>>

vars == <<trace, object_mappings, prepared_files, files, main_pc, li, ji,
          start_time, wait_time, target_time, now, slept, threads, exit_code, faults, last_write,
          infile, line_no, existing_objects, outfile, call>>

NoTime == -1000
NoLoc == <<>>
\* headers = {}: no Range header
NoRange == <<>>
EmptyMap == [x \in {} |-> NoLoc]

\* no function has been applied
NoCall == [fn |-> "none"]

\* the filter is not run
FilterIdle ==
    /\ infile = <<>>
    /\ line_no = 1
    /\ existing_objects = {}
    /\ outfile = <<>>

\* run_bench.py as main starts on one of the trace files
RunStart(traces) ==
    /\ trace \in traces
    /\ object_mappings = EmptyMap
    /\ prepared_files = {}
    /\ files = [x \in {} |-> 0]
    /\ main_pc = "pre_create"
    /\ li = 1
    /\ ji = 1
    /\ start_time = NoTime
    /\ wait_time = 0
    /\ target_time = 0
    /\ now = 0
    /\ slept = FALSE
    /\ threads = <<>>
    /\ exit_code = -1
    /\ faults = 0
    /\ last_write = [i \in Ids |-> [kind |-> "none", loc |-> NoLoc]]

\* the state when main starts on one of the trace files
Start(traces) ==
    /\ RunStart(traces)
    /\ FilterIdle
    /\ call = NoCall

Init == Start(TraceSet)

\* the trace file may hold lines whose integer fields do not parse
InitAnyLine == Start(AnyTraceSet)

(* ---------------------------- helpers ---------------------------------- *)
Max(a, b) == IF a >= b THEN a ELSE b

\* d.setdefault(k, v): an entry that exists is kept
DictSetIfAbsent(d, k, v) == [x \in DOMAIN d \cup {k} |-> IF x \in DOMAIN d THEN d[x] ELSE v]

\* d = {k: v}: the dict is rebuilt with the one entry
DictSetOnly(d, k, v) == [x \in {k} |-> v]

\* d[k] = v   (dict assignment)
DictSet(d, k, v) == [x \in DOMAIN d \cup {k} |-> IF x = k THEN v ELSE d[x]]

\* a del that removes nothing
DictDelKeeps(d, k) == d

\* d.clear()
DictDelAll(d, k) == [x \in {} |-> d[x]]

\* del d[k]   (k is in d)
DictDel(d, k) == [x \in DOMAIN d \ {k} |-> d[x]]

\* time.time() * 1000: a reading of the clock, never before the last one.  now
\* is the instant of the first reading of a run (line 216) until the second one.
ClockReadings == {now + d : d \in 0..MaxDelta}

\* the lines sorted by timestamp (ties in file order)
LineOrderByTs(tr) ==
    LET n == Len(tr)
        before(a, b) == tr[a].ts < tr[b].ts \/ (tr[a].ts = tr[b].ts /\ a < b)
    IN  CHOOSE f \in [1..n -> 1..n] :
            /\ \A a, b \in 1..n : a # b => f[a] # f[b]
            /\ \A a, b \in 1..n : a < b => before(f[a], f[b])

\* the lines in the order `for line in lines` visits them: file order
LineOrder(tr) == [k \in 1..Len(tr) |-> k]

\* the line execute_trace's loop is at
CurIndex == LineOrder(trace)[li]
CurLine == trace[CurIndex]

\* an uncaught exception in the main thread ends the process with status 1
MainCrash ==
    /\ main_pc' = "crashed"
    /\ exit_code' = 1

(* ---------------------------- pre_create_put_files --------------------- *)
\* the PUT lines that carry a size field
IsSizedPut(l) == l.nparts >= 3 /\ l.op = PUT /\ l.nparts >= 4

\* a scan that stops after the first line of the trace
PutOperationsOfFirstLine(tr) ==
    [i \in {x \in Ids : IsSizedPut(tr[1]) /\ tr[1].id = x} |-> tr[1].size]

\* put_operations: object_id -> size_bytes of the LAST sized PUT line of the id
PutOperations(tr) ==
    LET idx(i) == {k \in 1..Len(tr) : IsSizedPut(tr[k]) /\ tr[k].id = i}
        last(i) == CHOOSE k \in idx(i) : \A j \in idx(i) : j <= k
    IN  [i \in {x \in Ids : idx(x) # {}} |-> tr[last(i)].size]

PreCreate ==
    /\ main_pc = "pre_create"
    /\ IF \E k \in 1..Len(trace) : IsSizedPut(trace[k]) /\ trace[k].bad = "size"
       THEN \* int(parts[3]) raises ValueError during the scan: nothing is staged
            /\ MainCrash
            /\ UNCHANGED <<files, prepared_files>>
       ELSE /\ files' = PutOperations(trace)
            /\ prepared_files' = DOMAIN PutOperations(trace)
            /\ main_pc' = "for_line"
            /\ UNCHANGED exit_code
    /\ UNCHANGED <<tool_vars, trace, object_mappings, li, ji, start_time, wait_time,
                   target_time, now, slept, threads, faults, last_write>>

(* ---------------------------- execute_trace ---------------------------- *)
\* the origin set anew at every record
OriginOfEachRecord(st, reading, ts) == reading - ts

\* start_time = time.time() * 1000 - timestamp_ms, set when start_time is None
Origin(st, reading, ts) == IF st = NoTime THEN reading - ts ELSE st

\* no wait at all
WaitTimeNone(target, current) == 0

\* the difference, not clamped at zero
WaitTimeUnclamped(target, current) == target - current

\* wait_time = max(0, (target_time - current_time) / 1000), kept in ms
WaitTime(target, current) == Max(0, target - current)

\* threading.Thread(target=..., args=...): the locals of a thread about to run
NewThread(k, l, first_pc, ranged) ==
    [line |-> k, op |-> l.op, id |-> l.id, size |-> l.size,
     ranged |-> ranged, rs |-> l.rs, re |-> l.re,
     pc |-> first_pc, loc |-> NoLoc,
     outcome |-> "running", exc |-> "none", reqs |-> 0,
     sent |-> 0, status |-> 0, range_hdr |-> NoRange, seen |-> "unchecked"]

\* the operation is started once every earlier one has ended
StartThreadAfterEarlier(th) ==
    /\ \A t \in 1..Len(threads) : threads[t].pc = "done"
    /\ threads' = Append(threads, th)
    /\ li' = li + 1
    /\ main_pc' = "for_line"
    /\ UNCHANGED exit_code

\* thread.start(); threads.append(thread)
StartThread(th) ==
    /\ threads' = Append(threads, th)
    /\ li' = li + 1
    /\ main_pc' = "for_line"
    /\ UNCHANGED exit_code

\* no thread for this line (an error is logged)
NoThread ==
    /\ li' = li + 1
    /\ main_pc' = "for_line"
    /\ UNCHANGED <<threads, exit_code>>

\* a range is passed as soon as range_start is there
HasRangeFromStart(l) == l.nparts >= 5

\* len(parts) >= 6: range_start and range_end are passed to get_object
HasRange(l) == l.nparts >= 6

\* The if/elif chain on operation that ends the loop body.
Dispatch ==
    LET l == CurLine IN
    IF l.op = PUT
    THEN IF l.nparts >= 4
         THEN IF l.bad = "size"
              THEN MainCrash /\ UNCHANGED <<li, threads>>
              ELSE StartThread(NewThread(CurIndex, l, "put_start", FALSE))
         ELSE NoThread
    ELSE IF l.op = GET
    THEN IF HasRange(l)
         THEN IF l.bad = "range"
              THEN MainCrash /\ UNCHANGED <<li, threads>>
              ELSE StartThread(NewThread(CurIndex, l, "get_check", TRUE))
         ELSE StartThread(NewThread(CurIndex, l, "get_check", FALSE))
    ELSE IF l.op = DELETE
    THEN StartThread(NewThread(CurIndex, l, "delete_check", FALSE))
    ELSE NoThread

\* a line that is no record at all
TooShortNever(l) == FALSE

\* len(parts) < 3
TooShort(l) == l.nparts < 3

\* One iteration of the for loop.  When wait_time > 0 it stops at time.sleep
\* (the action Sleep finishes it); otherwise it runs on to the dispatch.  The
\* steps merged here touch nothing a running thread reads or writes.
ForLine ==
    /\ main_pc = "for_line"
    /\ li <= Len(trace)
    /\ IF TooShort(CurLine)
       THEN \* "Invalid trace line": continue
            /\ li' = li + 1
            /\ UNCHANGED <<main_pc, exit_code, start_time, target_time, wait_time,
                           now, slept, threads>>
       ELSE IF CurLine.bad = "ts"
       THEN \* int(parts[0]) raises ValueError
            /\ MainCrash
            /\ UNCHANGED <<li, start_time, target_time, wait_time, now, slept, threads>>
       ELSE \E current \in ClockReadings :
               LET st == Origin(start_time, now, CurLine.ts)
                   target == st + CurLine.ts
                   wait == WaitTime(target, current)
               IN  /\ start_time' = st
                   /\ target_time' = target
                   /\ now' = current
                   /\ wait_time' = wait
                   /\ slept' = FALSE
                   /\ IF wait > 0
                      THEN /\ main_pc' = "sleep"
                           /\ UNCHANGED <<li, exit_code, threads>>
                      ELSE Dispatch
    /\ UNCHANGED <<tool_vars, trace, object_mappings, prepared_files, files, ji, faults, last_write>>

\* time.sleep(wait_time) returns, no earlier than wait_time after the call, and
\* the loop body runs on to the dispatch
Sleep ==
    /\ main_pc = "sleep"
    /\ \E d \in 0..MaxDelta :
         /\ now' = now + wait_time + d
         /\ Dispatch
    /\ slept' = TRUE
    /\ UNCHANGED <<tool_vars, trace, object_mappings, prepared_files, files, ji, start_time,
                   wait_time, target_time, faults, last_write>>

\* The for loop over the lines is exhausted.  Nothing reads the clock or the
\* timing locals of execute_trace from here on: they are dropped.
EndOfLines ==
    /\ main_pc = "for_line"
    /\ li > Len(trace)
    /\ main_pc' = "join"
    /\ start_time' = NoTime /\ wait_time' = 0 /\ target_time' = 0
    /\ now' = 0 /\ slept' = FALSE
    /\ UNCHANGED <<tool_vars, trace, object_mappings, prepared_files, files, li, ji,
                   threads, exit_code, faults, last_write>>

\* no waiting for the thread
JoinableAlways(th) == TRUE

\* thread.join() returns once the thread has ended (returned or died)
Joinable(th) == th.pc = "done"

Join ==
    /\ main_pc = "join"
    /\ ji <= Len(threads)
    /\ Joinable(threads[ji])
    /\ ji' = ji + 1
    /\ UNCHANGED <<tool_vars, trace, object_mappings, prepared_files, files, main_pc, li, start_time,
                   wait_time, target_time, now, slept, threads, exit_code, faults, last_write>>

\* execute_trace returns
Return ==
    /\ main_pc = "join"
    /\ ji > Len(threads)
    /\ main_pc' = "returned"
    /\ UNCHANGED <<tool_vars, trace, object_mappings, prepared_files, files, li, ji, start_time,
                   wait_time, target_time, now, slept, threads, exit_code, faults, last_write>>

\* a status that tells whether an operation failed
ExitStatusOfThreads(ths) ==
    IF \E t \in 1..Len(ths) :
           ths[t].exc # "none" \/ ths[t].outcome \notin {"stored", "ok", "deleted", "accepted"}
    THEN 1 ELSE 0

\* main returns: the status of the process, whatever its threads reported
ExitStatus(ths) == 0

\* main prints "Trace execution completed" and the process ends
Exit ==
    /\ main_pc = "returned"
    /\ main_pc' = "exited"
    /\ exit_code' = ExitStatus(threads)
    /\ UNCHANGED <<tool_vars, trace, object_mappings, prepared_files, files, li, ji, start_time,
                   wait_time, target_time, now, slept, threads, faults, last_write>>

Main == PreCreate \/ ForLine \/ Sleep \/ EndOfLines \/ Join \/ Return \/ Exit

(* ---------------------------- the cluster ------------------------------ *)
\* GET <master>/dir/assign for thread t: the request raises, or answers JSON that
\* lacks publicUrl or fid, or answers an assignment.  The coordinator never hands
\* out a file id twice; the fid of an assignment is named after its requester.
AssignResponses(t) ==
    {[kind |-> "exc", loc |-> NoLoc], [kind |-> "missing", loc |-> NoLoc]}
    \cup {[kind |-> "ok", loc |-> <<t, u>>] : u \in Urls}

\* POST http://<publicUrl>/<fid>: the request raises, or answers a status with
\* a body that is JSON or not
UploadResponses ==
    {[exc |-> TRUE, status |-> 0, json |-> FALSE],
     [exc |-> FALSE, status |-> 201, json |-> TRUE],
     [exc |-> FALSE, status |-> 500, json |-> TRUE],
     [exc |-> FALSE, status |-> 500, json |-> FALSE]}

\* status of the answer to a GET or DELETE; 0: the request raised
GetResponses == {0, 200, 206, 404}
DeleteResponses == {0, 200, 202, 204, 404}

\* An answer arrives; at most MaxFaults answers of a run are not the plain
\* success (assignment, 201 with a JSON body, 200/206 to GET, 200/204 to DELETE).
Answered(faulty) ==
    IF faulty THEN faults < MaxFaults /\ faults' = faults + 1 ELSE UNCHANGED faults

(* ---------------------------- threads ---------------------------------- *)
Running(t) == t \in 1..Len(threads)

SetThread(t, r) == threads' = [threads EXCEPT ![t] = r]

\* the thread returns
Done(th, outcome) == [th EXCEPT !.pc = "done", !.outcome = outcome]

\* an exception no handler catches ends the thread
Dies(th, e) == [th EXCEPT !.pc = "done", !.exc = e]

\* the membership test left out
HasMappingAlways(m, i) == TRUE

\* `object_id in object_mappings`
HasMapping(m, i) == i \in DOMAIN m

\* history: what last changed the id's entry when the thread tested the mapping
Checked(th) == [th EXCEPT !.seen = last_write[th.id].kind]

(* ---------------------------- put_object ------------------------------- *)
\* file_path = prepared_files.get(object_id); os.path.exists(file_path).  One
\* step, at the instant of the exists test: a file is removed before its entry
\* is, so an entry read earlier changes nothing of the outcome.
PutStart(t) ==
    /\ Running(t) /\ threads[t].pc = "put_start"
    /\ LET th == threads[t] IN
       IF th.id \notin prepared_files \/ th.id \notin DOMAIN files
       THEN SetThread(t, Done(th, "no_file"))
       ELSE SetThread(t, [th EXCEPT !.pc = "put_assign"])
    /\ UNCHANGED <<tool_vars, trace, object_mappings, prepared_files, files, main_pc, li, ji,
                   start_time, wait_time, target_time, now, slept, exit_code, faults, last_write>>

\* only a request that raises counts as a failed assignment
AssignFailedOnRaise(r) == r.kind = "exc"

\* the request or .json() raises (except clause), or publicUrl or fid is missing
AssignFailed(r) == r.kind = "exc" \/ r.kind = "missing"

\* requests.get(assign_url), assign_response.json(), the test of publicUrl and fid
PutAssign(t) ==
    /\ Running(t) /\ threads[t].pc = "put_assign"
    /\ \E r \in AssignResponses(t) :
         LET th == [threads[t] EXCEPT !.reqs = @ + 1] IN
         /\ Answered(r.kind # "ok")
         /\ IF AssignFailed(r)
            THEN \* the except clause, or the return of line 89: both reach finally
                 SetThread(t, [th EXCEPT !.pc = "put_finally", !.outcome = "assign_error"])
            ELSE SetThread(t, [th EXCEPT !.pc = "put_upload", !.loc = r.loc])
    /\ UNCHANGED <<tool_vars, trace, object_mappings, prepared_files, files, main_pc, li, ji,
                   start_time, wait_time, target_time, now, slept, exit_code, last_write>>

\* open(file_path, 'rb') and the sending of requests.post
PutUpload(t) ==
    /\ Running(t) /\ threads[t].pc = "put_upload"
    /\ LET th == threads[t] IN
       IF th.id \notin DOMAIN files
       THEN \* FileNotFoundError, caught by `except Exception`
            SetThread(t, [th EXCEPT !.pc = "put_finally", !.outcome = "upload_error"])
       ELSE SetThread(t, [th EXCEPT !.pc = "put_response", !.reqs = @ + 1,
                                      !.sent = files[th.id]])
    /\ UNCHANGED <<tool_vars, trace, object_mappings, prepared_files, files, main_pc, li, ji,
                   start_time, wait_time, target_time, now, slept, exit_code, faults, last_write>>

\* the answer to the upload, the PUT log line, upload_response.json() and
\* object_mappings[object_id] = (fid, public_url)
PutResponse(t) ==
    /\ Running(t) /\ threads[t].pc = "put_response"
    /\ \E r \in UploadResponses :
         LET th == [threads[t] EXCEPT !.pc = "put_finally", !.status = r.status] IN
         /\ Answered(r.exc \/ r.status # 201)
         /\ IF r.exc
            THEN /\ SetThread(t, [th EXCEPT !.outcome = "upload_error"])
                 /\ UNCHANGED <<object_mappings, last_write>>
            ELSE IF ~r.json
            THEN \* upload_response.json() raises
                 /\ SetThread(t, [th EXCEPT !.outcome = "upload_error"])
                 /\ UNCHANGED <<object_mappings, last_write>>
            ELSE /\ SetThread(t, [th EXCEPT !.outcome = "stored"])
                 /\ object_mappings' = DictSet(object_mappings, th.id, th.loc)
                 /\ last_write' = [last_write EXCEPT ![th.id] =
                                      [kind |-> "put", loc |-> th.loc]]
    /\ UNCHANGED <<tool_vars, trace, prepared_files, files, main_pc, li, ji,
                   start_time, wait_time, target_time, now, slept, exit_code>>

\* finally: if os.path.exists(file_path)
PutFinally(t) ==
    /\ Running(t) /\ threads[t].pc = "put_finally"
    /\ LET th == threads[t] IN
       IF th.id \in DOMAIN files
       THEN SetThread(t, [th EXCEPT !.pc = "put_remove"])
       ELSE SetThread(t, [th EXCEPT !.pc = "done"])
    /\ UNCHANGED <<tool_vars, trace, object_mappings, prepared_files, files, main_pc, li, ji,
                   start_time, wait_time, target_time, now, slept, exit_code, faults, last_write>>

\* os.remove(file_path)
PutRemove(t) ==
    /\ Running(t) /\ threads[t].pc = "put_remove"
    /\ LET th == threads[t] IN
       IF th.id \in DOMAIN files
       THEN /\ files' = DictDel(files, th.id)
            /\ SetThread(t, [th EXCEPT !.pc = "put_in"])
       ELSE \* FileNotFoundError inside finally: nothing catches it
            /\ SetThread(t, Dies(th, "FileNotFoundError"))
            /\ UNCHANGED files
    /\ UNCHANGED <<tool_vars, trace, object_mappings, prepared_files, main_pc, li, ji,
                   start_time, wait_time, target_time, now, slept, exit_code, faults, last_write>>

\* if object_id in prepared_files
PutIn(t) ==
    /\ Running(t) /\ threads[t].pc = "put_in"
    /\ LET th == threads[t] IN
       IF th.id \in prepared_files
       THEN SetThread(t, [th EXCEPT !.pc = "put_del"])
       ELSE SetThread(t, [th EXCEPT !.pc = "done"])
    /\ UNCHANGED <<tool_vars, trace, object_mappings, prepared_files, files, main_pc, li, ji,
                   start_time, wait_time, target_time, now, slept, exit_code, faults, last_write>>

\* del prepared_files[object_id]
PutDel(t) ==
    /\ Running(t) /\ threads[t].pc = "put_del"
    /\ LET th == threads[t] IN
       IF th.id \in prepared_files
       THEN /\ prepared_files' = prepared_files \ {th.id}
            /\ SetThread(t, [th EXCEPT !.pc = "done"])
       ELSE /\ SetThread(t, Dies(th, "KeyError"))
            /\ UNCHANGED prepared_files
    /\ UNCHANGED <<tool_vars, trace, object_mappings, files, main_pc, li, ji,
                   start_time, wait_time, target_time, now, slept, exit_code, faults, last_write>>

(* ---------------------------- get_object ------------------------------- *)
\* if object_id not in object_mappings: log the error and return
GetCheck(t) ==
    /\ Running(t) /\ threads[t].pc = "get_check"
    /\ LET th == threads[t] IN
       IF ~HasMapping(object_mappings, th.id)
       THEN SetThread(t, Done(Checked(th), "unknown_object"))
       ELSE SetThread(t, [Checked(th) EXCEPT !.pc = "get_lookup"])
    /\ UNCHANGED <<tool_vars, trace, object_mappings, prepared_files, files, main_pc, li, ji,
                   start_time, wait_time, target_time, now, slept, exit_code, faults, last_write>>

\* the Range header of get_object's request: "bytes=<range_start>-<range_end>"
\* as the pair of the two numbers, when both arguments are given
RangeHeader(th) == IF th.ranged THEN <<th.rs, th.re>> ELSE NoRange

\* fid, public_url = object_mappings[object_id], outside the try; then the
\* sending of requests.get(url, headers=headers)
GetLookup(t) ==
    /\ Running(t) /\ threads[t].pc = "get_lookup"
    /\ LET th == threads[t] IN
       IF th.id \notin DOMAIN object_mappings
       THEN SetThread(t, Dies(th, "KeyError"))
       ELSE SetThread(t, [th EXCEPT !.pc = "get_response", !.reqs = @ + 1,
                                      !.loc = object_mappings[th.id],
                                      !.range_hdr = RangeHeader(th)])
    /\ UNCHANGED <<tool_vars, trace, object_mappings, prepared_files, files, main_pc, li, ji,
                   start_time, wait_time, target_time, now, slept, exit_code, faults, last_write>>

\* what get_object reports for the answer
GetOutcome(status) ==
    IF status = 0 THEN "error"
    ELSE IF status = 200 \/ status = 206 THEN "ok"
    ELSE "failed"

GetResponse(t) ==
    /\ Running(t) /\ threads[t].pc = "get_response"
    /\ \E status \in GetResponses :
         /\ Answered(GetOutcome(status) # "ok")
         /\ SetThread(t, Done(threads[t], GetOutcome(status)))
    /\ UNCHANGED <<tool_vars, trace, object_mappings, prepared_files, files, main_pc, li, ji,
                   start_time, wait_time, target_time, now, slept, exit_code, last_write>>

(* ---------------------------- delete_object ---------------------------- *)
\* if object_id not in object_mappings: log the error and return
DeleteCheck(t) ==
    /\ Running(t) /\ threads[t].pc = "delete_check"
    /\ LET th == threads[t] IN
       IF ~HasMapping(object_mappings, th.id)
       THEN SetThread(t, Done(Checked(th), "unknown_object"))
       ELSE SetThread(t, [Checked(th) EXCEPT !.pc = "delete_lookup"])
    /\ UNCHANGED <<tool_vars, trace, object_mappings, prepared_files, files, main_pc, li, ji,
                   start_time, wait_time, target_time, now, slept, exit_code, faults, last_write>>

\* fid, public_url = object_mappings[object_id], outside the try; then the
\* sending of requests.delete(url)
DeleteLookup(t) ==
    /\ Running(t) /\ threads[t].pc = "delete_lookup"
    /\ LET th == threads[t] IN
       IF th.id \notin DOMAIN object_mappings
       THEN SetThread(t, Dies(th, "KeyError"))
       ELSE SetThread(t, [th EXCEPT !.pc = "delete_response", !.reqs = @ + 1,
                                      !.loc = object_mappings[th.id]])
    /\ UNCHANGED <<tool_vars, trace, object_mappings, prepared_files, files, main_pc, li, ji,
                   start_time, wait_time, target_time, now, slept, exit_code, faults, last_write>>

\* 202 removes the mapping as well
DeleteRemovesAccepted(status) == status = 200 \/ status = 202 \/ status = 204

\* the statuses on which delete_object removes the mapping
DeleteRemoves(status) == status = 200 \/ status = 204

\* the answer to the delete and, on 200 or 204, del object_mappings[object_id]
DeleteResponse(t) ==
    /\ Running(t) /\ threads[t].pc = "delete_response"
    /\ \E status \in DeleteResponses :
         LET th == [threads[t] EXCEPT !.status = status] IN
         /\ Answered(~DeleteRemoves(status))
         /\ IF status = 0
            THEN /\ SetThread(t, Done(th, "error"))
                 /\ UNCHANGED <<object_mappings, last_write>>
            ELSE IF DeleteRemoves(status)
            THEN IF th.id \in DOMAIN object_mappings
                 THEN /\ object_mappings' = DictDel(object_mappings, th.id)
                      /\ last_write' = [last_write EXCEPT ![th.id] =
                                           [kind |-> "delete", loc |-> th.loc]]
                      /\ SetThread(t, Done(th, "deleted"))
                 ELSE \* KeyError, caught by `except Exception`
                      /\ SetThread(t, Done(th, "error"))
                      /\ UNCHANGED <<object_mappings, last_write>>
            ELSE IF status = 202
            THEN /\ SetThread(t, Done(th, "accepted"))
                 /\ UNCHANGED <<object_mappings, last_write>>
            ELSE /\ SetThread(t, Done(th, "failed"))
                 /\ UNCHANGED <<object_mappings, last_write>>
    /\ UNCHANGED <<tool_vars, trace, prepared_files, files, main_pc, li, ji,
                   start_time, wait_time, target_time, now, slept, exit_code>>

Thread(t) ==
    \/ PutStart(t) \/ PutAssign(t) \/ PutUpload(t) \/ PutResponse(t)
    \/ PutFinally(t) \/ PutRemove(t) \/ PutIn(t) \/ PutDel(t)
    \/ GetCheck(t) \/ GetLookup(t) \/ GetResponse(t)
    \/ DeleteCheck(t) \/ DeleteLookup(t) \/ DeleteResponse(t)

Next == Main \/ \E t \in 1..MaxLines : Thread(t)

Spec == Init /\ [][Next]_vars

\* the same program on the trace files of AnyTraceSet
SpecAnyLine == InitAnyLine /\ [][Next]_vars

(* ---------------------------- throughput ------------------------------- *)
\* the quotient with no guard: the denominator may be 0
ThroughputUnguarded(nbytes, elapsed) == [num |-> nbytes, den |-> elapsed]

\* throughput = size_bytes / elapsed if elapsed > 0 else 0, as the exact
\* quotient num/den (a den of 0 is a division by zero)
Throughput(nbytes, elapsed) ==
    IF elapsed > 0 THEN [num |-> nbytes, den |-> elapsed] ELSE [num |-> 0, den |-> 1]

\* put_object and get_object compute the throughput of a transfer
CallThroughput ==
    /\ call = NoCall
    /\ \E nbytes \in 0..MaxBytes, elapsed \in (0 - 1)..MaxElapsed :
         call' = [fn |-> "throughput", nbytes |-> nbytes, elapsed |-> elapsed,
                  ret |-> Throughput(nbytes, elapsed)]
    /\ UNCHANGED <<run_vars, infile, line_no, existing_objects, outfile>>

(* ---------------------------- run_test.py ------------------------------ *)
chunk_size == 16

base_pattern == <<"T", "E", "S", "T", "t", "e", "s", "t">>

\* c[a:b] of Python for 0 <= a and 0 <= b
PySlice(c, a, b) == SubSeq(c, a + 1, IF b <= Len(c) THEN b ELSE Len(c))

\* str(i).zfill(8).encode('ascii') for 0 <= i < 10^8
Zfill8(i) ==
    LET digit == <<"0", "1", "2", "3", "4", "5", "6", "7", "8", "9">>
    IN  [k \in 1..8 |-> digit[((i \div (10 ^ (8 - k))) % 10) + 1]]

\* the content after the loop `for i in range(n)`
RECURSIVE Chunks(_)
Chunks(n) == IF n = 0 THEN <<>> ELSE Chunks(n - 1) \o Zfill8(n - 1) \o base_pattern

generate_patterned_content(size_bytes) ==
    LET num_chunks == size_bytes \div chunk_size
        remaining_bytes == size_bytes % chunk_size
    IN  Chunks(num_chunks)
          \o (IF remaining_bytes > 0 THEN PySlice(base_pattern, 0, remaining_bytes) ELSE <<>>)

\* the slice without its last byte
expected_content_exclusive(original_content, is_range_request, range_start, range_end) ==
    IF is_range_request
    THEN PySlice(original_content, range_start, range_end)
    ELSE original_content

\* get_object: original_content[range_start:range_end+1] for a range request,
\* original_content otherwise
expected_content(original_content, is_range_request, range_start, range_end) ==
    IF is_range_request
    THEN PySlice(original_content, range_start, range_end + 1)
    ELSE original_content

\* verify_content returns original_content == received_content
verify_content(original_content, received_content) == original_content = received_content

\* contents a volume server may answer with: the bytes asked for, too few, one
\* byte changed, everything, nothing
Answers(content, s, e) ==
    LET asked == PySlice(content, s, e + 1)
    IN  {asked, PySlice(content, s, e), content, <<>>}
        \cup {[asked EXCEPT ![1] = "x"] : k \in {1} \cap DOMAIN asked}

CallGenerate ==
    /\ call = NoCall
    /\ \E n \in 0..MaxContent :
         call' = [fn |-> "generate_patterned_content", size_bytes |-> n,
                  ret |-> generate_patterned_content(n)]
    /\ UNCHANGED <<run_vars, infile, line_no, existing_objects, outfile>>

\* get_object of run_test.py on an answer 200/206: the object was PUT with n
\* bytes, the GET has a range or not, the server answers `received`
CallVerify ==
    /\ call = NoCall
    /\ \E n \in 0..MaxContent, ranged \in BOOLEAN,
          s \in 0..MaxOffset, e \in 0..MaxOffset :
         LET original == generate_patterned_content(n)
             expected == expected_content(original, ranged, s, e)
         IN  /\ (~ranged => s = 0 /\ e = 0)
             /\ \E received \in Answers(original, s, e) :
                  call' = [fn |-> "verify_content", original_content |-> original,
                           is_range_request |-> ranged,
                           range_start |-> s, range_end |-> e,
                           received |-> received, expected |-> expected,
                           ret |-> verify_content(expected, received)]
    /\ UNCHANGED <<run_vars, infile, line_no, existing_objects, outfile>>

NextCalls == CallThroughput \/ CallGenerate \/ CallVerify

\* one function applied to one choice of arguments
InitCalls == RunStart({<<>>}) /\ FilterIdle /\ call = NoCall

SpecCalls == InitCalls /\ [][NextCalls]_vars

(* ---------------------------- rm_non_existing.py ----------------------- *)
\* lines of an input file of the filter
FilterLines ==
    {Line(4, 0, PUT, i, 1, "none") : i \in Ids}
    \cup {Line(3, 0, o, i, 0, "none") : i \in Ids, o \in {GET, DELETE}}
    \cup {Line(3, 0, "REST.HEAD.OBJECT", "a", 0, "none"),
          Line(3, 0, PUT, "a", 0, "none"),
          Line(1, 0, "", "", 0, "none")}

FilterInputs == UNION {[1..n -> FilterLines] : n \in 0..MaxFilterLines}

\* `word in operation` for the operations REST.<WORD>.OBJECT of a trace: the
\* substring is there when it is the middle word
Mentions(operation, word) == operation = "REST." \o word \o ".OBJECT"

\* every id counts as existing
InExistingAlways(existing, object_id) == TRUE

\* object_id in existing_objects
InExisting(existing, object_id) == object_id \in existing

\* one iteration of `for line in infile`
FilterLine ==
    /\ line_no <= Len(infile)
    /\ line_no' = line_no + 1
    /\ LET line == infile[line_no] IN
       IF line.nparts < 3
       THEN UNCHANGED <<existing_objects, outfile>>
       ELSE IF Mentions(line.op, "PUT")
       THEN /\ existing_objects' = existing_objects \cup {line.id}
            /\ outfile' = Append(outfile, line)
       ELSE IF Mentions(line.op, "DELETE")
       THEN IF InExisting(existing_objects, line.id)
            THEN /\ existing_objects' = existing_objects \ {line.id}
                 /\ outfile' = Append(outfile, line)
            ELSE UNCHANGED <<existing_objects, outfile>>
       ELSE IF Mentions(line.op, "GET")
       THEN /\ IF InExisting(existing_objects, line.id)
               THEN outfile' = Append(outfile, line)
               ELSE UNCHANGED outfile
            /\ UNCHANGED existing_objects
       ELSE /\ outfile' = Append(outfile, line)
            /\ UNCHANGED existing_objects
    /\ UNCHANGED <<run_vars, infile, call>>

NextFilter == FilterLine

InitFilter ==
    /\ RunStart({<<>>})
    /\ infile \in FilterInputs
    /\ line_no = 1
    /\ existing_objects = {}
    /\ outfile = <<>>
    /\ call = NoCall

SpecFilter == InitFilter /\ [][NextFilter]_vars

(* ======================== properties =================================== *)
Threads == 1..Len(threads)

\* the step is one of the main thread
MainStep == main_pc' # main_pc \/ li' # li \/ ji' # ji

\* thread t takes the step that tests `object_id not in object_mappings`
ChecksMapping(t) ==
    /\ threads[t].pc \in {"get_check", "delete_check"}
    /\ threads'[t] # threads[t]

\* C1: a GET or DELETE that finds no Placement for its object id when it tests
\* the mapping ends there, reported as an unknown object, and has sent no request.
C1_UnknownObjectNoRequest ==
    /\ [](\A t \in Threads :
            threads[t].outcome = "unknown_object" =>
                /\ threads[t].pc = "done"
                /\ threads[t].exc = "none"
                /\ threads[t].reqs = 0)
    /\ [][\A t \in Threads :
            (ChecksMapping(t) /\ threads[t].id \notin DOMAIN object_mappings) =>
                threads'[t].outcome = "unknown_object"]_vars

\* a DELETE finds the object already deleted by another DELETE
C1_Witness ==
    \E t, u \in Threads :
        /\ threads[t].op = DELETE /\ threads[t].outcome = "unknown_object"
        /\ threads[t].seen = "delete"
        /\ threads[u].op = DELETE /\ threads[u].outcome = "deleted"
        /\ threads[u].id = threads[t].id

\* C2: once a DELETE answered 200/204 has removed the Placement a PUT stored, and
\* until another PUT stores one, the id has no Placement and every GET or DELETE
\* that tests the mapping ends as an unknown object.
C2_DeletedThenUnknown ==
    /\ \A i \in Ids : last_write[i].kind = "delete" => i \notin DOMAIN object_mappings
    /\ \A t \in Threads :
         threads[t].seen = "delete" =>
            /\ threads[t].outcome = "unknown_object"
            /\ threads[t].pc = "done"

\* PUT a stored, DELETE a removed it, and a GET of a then found nothing
C2_Witness ==
    \E p, d, g \in Threads :
        /\ threads[p].op = PUT /\ threads[p].outcome = "stored"
        /\ threads[d].op = DELETE /\ threads[d].outcome = "deleted"
        /\ threads[g].op = GET /\ threads[g].seen = "delete"
        /\ threads[g].outcome = "unknown_object"
        /\ threads[p].id = threads[d].id /\ threads[d].id = threads[g].id
        /\ NumPuts(trace) = 1

\* C3: the threads are started in the order of their lines in the trace file.
C3_DispatchInFileOrder ==
    \A t, u \in Threads : t < u => threads[t].line < threads[u].line

\* two records dispatched in file order against the order of their timestamps
C3_Witness ==
    \E t, u \in Threads :
        /\ t < u
        /\ trace[threads[t].line].ts > trace[threads[u].line].ts

\* C4: when a thread is started, the clock is at or past origin + timestamp_ms
\* of its record.
C4_NeverEarly ==
    [][Len(threads') > Len(threads) =>
          now' >= start_time' + trace[threads'[Len(threads')].line].ts]_vars

\* the third record of timestamps 0, 1, 2 has been dispatched after a sleep
C4_Witness ==
    /\ Len(trace) = 3 /\ Len(threads) = 3
    /\ \A k \in 1..3 : trace[k].ts = k - 1
    /\ main_pc = "for_line"
    /\ slept
    /\ now >= start_time + 2

\* the loop body computes the wait for a line whose timestamp parses
ComputesWait ==
    /\ main_pc = "for_line" /\ li <= Len(trace) /\ MainStep
    /\ CurLine.nparts >= 3

\* C5: the wait is never negative; it is target - now when the target lies
\* ahead and zero when the target has passed, and then the record is
\* dispatched in the same iteration without a sleep.
C5_WaitClamped ==
    /\ [](wait_time >= 0)
    /\ [][ComputesWait =>
            LET target == start_time' + CurLine.ts IN
            /\ wait_time' = (IF target > now' THEN target - now' ELSE 0)
            /\ (target <= now' => main_pc' # "sleep" /\ li' = li + 1 /\ ~slept')]_vars

\* a record whose timestamp is smaller than an earlier one's: its target has passed
C5_Witness ==
    /\ main_pc = "for_line" /\ li = 3 /\ Len(threads) = 2
    /\ trace[threads[1].line].ts > trace[threads[2].line].ts
    /\ target_time < now
    /\ wait_time = 0 /\ ~slept

\* the lines for which the if/elif chain of execute_trace starts a thread
Dispatched(l) ==
    /\ l.nparts >= 3
    /\ l.op \in {PUT, GET, DELETE}
    /\ (l.op = PUT => l.nparts >= 4)

AllDispatched ==
    {threads[t].line : t \in Threads} = {k \in 1..Len(trace) : Dispatched(trace[k])}

\* the operation of the thread ended in a failure (reported, or an exception)
Failed(th) ==
    /\ th.pc = "done"
    /\ (th.exc # "none" \/ th.outcome \notin {"stored", "ok", "deleted", "accepted"})

\* C6: whatever the operations report, the main thread is never stopped by
\* them: every record is dispatched, the run reaches its end, the exit status is 0.
C6_ErrorsContained ==
    /\ [](main_pc # "crashed")
    /\ [](main_pc = "exited" => exit_code = 0 /\ AllDispatched)
    /\ <>(main_pc = "exited")

\* the run ended with status 0 although the assignment of one PUT failed; a
\* later record was dispatched and served
C6_Witness ==
    /\ main_pc = "exited" /\ exit_code = 0
    /\ \E t, u \in Threads :
         /\ t < u
         /\ Failed(threads[t]) /\ threads[t].outcome = "assign_error"
         /\ ~Failed(threads[u])

\* execute_trace has returned
Drained == main_pc \in {"returned", "exited"}

\* C7: execute_trace returns only after the loop has passed the last line and
\* every thread it started has ended, and it does return when every operation does.
C7_DrainedAfterAll ==
    /\ [](Drained => /\ li > Len(trace)
                     /\ AllDispatched
                     /\ \A t \in Threads : threads[t].pc = "done")
    /\ <>Drained

\* three operations were in flight and execute_trace has returned
C7_Witness ==
    /\ Drained
    /\ Len(threads) = 3
    /\ \E t \in Threads : threads[t].outcome = "stored"
    /\ \E t \in Threads : threads[t].outcome = "deleted"

\* C8: no GET or DELETE thread ends by an exception that nothing catches.
C8_NoUncaughtException ==
    \A t \in Threads : threads[t].op \in {GET, DELETE} => threads[t].exc = "none"

\* thread t is between its test of the mapping and its last use of the entry
InCheckThenAct(t) == threads[t].pc \in {"get_lookup", "delete_lookup", "delete_response"}

\* C9: while an operation is between its test of the mapping and its read or
\* removal of the entry, no other operation changes the mapping.
C9_MappingMutex ==
    [][\A t \in Threads :
          (InCheckThenAct(t) /\ threads'[t] = threads[t]) =>
              object_mappings' = object_mappings]_vars

\* C10: an id that has a Placement has the one stored by the PUT that stored
\* last, and a GET or DELETE that reads the entry addresses that location.
C10_LastWriterWins ==
    /\ [](\A i \in DOMAIN object_mappings :
            /\ last_write[i].kind = "put"
            /\ object_mappings[i] = last_write[i].loc)
    /\ [][\A t \in Threads :
            (threads[t].pc \in {"get_lookup", "delete_lookup"}
               /\ threads'[t].pc \in {"get_response", "delete_response"}) =>
                  threads'[t].loc = last_write[threads[t].id].loc]_vars

\* two PUTs of one id both stored, and a GET was sent to the location of the later
C10_Witness ==
    \E p, q, g \in Threads :
        /\ p # q
        /\ threads[p].op = PUT /\ threads[p].outcome = "stored"
        /\ threads[q].op = PUT /\ threads[q].outcome = "stored"
        /\ threads[p].id = threads[q].id /\ threads[g].id = threads[p].id
        /\ threads[g].op = GET /\ threads[g].reqs = 1
        /\ threads[g].loc = threads[q].loc
        /\ last_write[threads[q].id] = [kind |-> "put", loc |-> threads[q].loc]
        /\ object_mappings[threads[q].id] = threads[q].loc

\* C11: a PUT stores a Placement only when its upload was answered with a 2xx
\* status; a PUT whose upload was answered otherwise is a failure and leaves the
\* mapping as it was.
C11_StoreOnlyOnSuccess ==
    \A t \in Threads :
        (threads[t].op = PUT /\ threads[t].outcome = "stored") =>
            threads[t].status \in 200..299

\* thread t takes a step
Steps(t) == threads'[t] # threads[t]

\* C12: a PUT whose assignment failed has sent the assignment request and nothing
\* else, an upload is sent only to an assigned location, and neither the step
\* that fails the assignment nor any later step of that PUT changes the mapping
\* or another operation.
C12_AssignFailureAborts ==
    /\ [](\A t \in Threads :
            threads[t].op = PUT =>
                /\ (threads[t].outcome = "assign_error" =>
                        /\ threads[t].reqs = 1
                        /\ threads[t].sent = 0
                        /\ threads[t].loc = NoLoc)
                /\ (threads[t].reqs >= 2 => threads[t].loc # NoLoc))
    /\ [][\A t \in Threads :
            (Steps(t) /\ (threads[t].pc = "put_assign"
                            \/ threads[t].outcome = "assign_error")) =>
                /\ threads'[t].outcome \in {"assign_error", "running"}
                /\ object_mappings' = object_mappings
                /\ main_pc' = main_pc
                /\ \A u \in Threads \ {t} : threads'[u] = threads[u]]_vars

\* the assignment of a second PUT of an id failed: the Placement the first PUT
\* stored is still the id's
C12_Witness ==
    \E p, q \in Threads :
        /\ threads[p].op = PUT /\ threads[p].outcome = "stored"
        /\ threads[q].op = PUT /\ threads[q].outcome = "assign_error"
        /\ threads[q].pc = "done" /\ threads[q].reqs = 1
        /\ threads[p].id = threads[q].id
        /\ object_mappings[threads[p].id] = threads[p].loc

\* the lines whose integer fields all parse
Parses(l) == l.bad = "none"

\* C13: a line with an integer field that does not parse never ends the replay:
\* the run does not crash, and when it has ended every other record that names an
\* operation has been dispatched.
C13_BadIntegerSkipped ==
    /\ main_pc # "crashed"
    /\ (main_pc = "exited" =>
          \A k \in 1..Len(trace) :
              (Dispatched(trace[k]) /\ Parses(trace[k])) =>
                  \E t \in Threads : threads[t].line = k)

\* the loop body passes over a line of fewer than 3 fields
SkipsShortLine ==
    /\ main_pc = "for_line" /\ li <= Len(trace) /\ MainStep
    /\ CurLine.nparts < 3

\* C14: a line of fewer than 3 fields is passed over: the loop moves to the next
\* line and changes nothing else (no thread, no origin, no wait, no mapping, no
\* staged file); no thread ever belongs to such a line, nothing is staged for
\* it, and the records after it are dispatched.
C14_ShortLineSkipped ==
    /\ [][SkipsShortLine =>
            /\ li' = li + 1
            /\ main_pc' = "for_line"
            /\ UNCHANGED <<threads, start_time, target_time, wait_time, now,
                           object_mappings, prepared_files, files, exit_code>>]_vars
    /\ [](\A t \in Threads : trace[threads[t].line].nparts >= 3)
    /\ [](\A i \in prepared_files :
            \E k \in 1..Len(trace) : trace[k].nparts >= 3 /\ trace[k].id = i)
    /\ [](main_pc = "exited" => AllDispatched)

\* the first line is too short: the second record fixed the origin and both
\* records after the short line have been dispatched
C14_Witness ==
    /\ Len(trace) = 3 /\ trace[1].nparts < 3
    /\ trace[2].ts = MaxTs
    /\ main_pc = "for_line" /\ li = 4
    /\ Len(threads) = 2 /\ threads[1].line = 2 /\ threads[2].line = 3
    /\ start_time = now - wait_time - MaxTs
    /\ start_time # NoTime

\* the PUT records of the trace: the lines execute_trace starts a put_object for
PutRecords == {k \in 1..Len(trace) : Dispatched(trace[k]) /\ trace[k].op = PUT}

\* the main thread starts the first thread of the run
FirstDispatch == Len(threads) = 0 /\ Len(threads') = 1

\* C15: when the first thread is started, every id of a PUT record of the trace
\* has its entry in prepared_files and its file under ./temp, of the size of a
\* PUT record of that id; and no thread exists while the staging runs.
C15_StagedBeforeReplay ==
    /\ [][FirstDispatch =>
            \A k \in PutRecords :
                /\ trace[k].id \in prepared_files
                /\ trace[k].id \in DOMAIN files
                /\ \E j \in PutRecords :
                      trace[j].id = trace[k].id /\ files[trace[k].id] = trace[j].size]_vars
    /\ [](main_pc = "pre_create" => threads = <<>> /\ li = 1)

\* the first thread, a GET, has been started and has not run yet; the PUT
\* records of both ids come later in the trace and their payloads are staged
C15_Witness ==
    /\ Len(threads) = 1 /\ threads[1].op = GET /\ threads[1].pc = "get_check"
    /\ {trace[k].id : k \in PutRecords} = Ids
    /\ prepared_files = Ids /\ DOMAIN files = Ids

\* a thread has been started and execute_trace has not returned
Replaying == Len(threads) >= 1 /\ ~Drained

\* C16: from the first dispatch until execute_trace returns, no step changes
\* prepared_files or the staged files.
C16_StagedStoreReadOnly ==
    [][Replaying => prepared_files' = prepared_files /\ files' = files]_vars

\* the PUT threads of id i that have sent the staged file of i
Uploaders(i) ==
    {t \in Threads : threads[t].op = PUT /\ threads[t].id = i /\ threads[t].sent > 0}

\* C17: the staged file of an id is sent by at most one PUT thread.
C17_PayloadConsumedOnce ==
    \A i \in Ids : Cardinality(Uploaders(i)) <= 1

\* C18: while lines are left, the loop of execute_trace can always take its
\* next step, whatever the threads it has started are doing; the main thread
\* waits for a thread only in the join loop, after the last line.
C18_NeverWaitsInLoop ==
    /\ []((main_pc \in {"for_line", "sleep"} /\ li <= Len(trace)) =>
             ENABLED (ForLine \/ Sleep))
    /\ [][ji' # ji => main_pc = "join" /\ li > Len(trace)]_vars

\* the third record has been dispatched while the operations of the first two
\* are still waiting for the answers to their requests
C18_Witness ==
    /\ Len(threads) = 3
    /\ threads[1].pc = "put_response"
    /\ threads[2].pc = "put_response"
    /\ threads[3].reqs = 0 /\ threads[3].pc # "done"

\* every line of the trace is a PUT record and no two name the same id
DistinctPuts ==
    /\ PutRecords = 1..Len(trace)
    /\ \A j, k \in 1..Len(trace) : j # k => trace[j].id # trace[k].id

\* every thread of the trace has been started and has ended
AllEnded ==
    /\ AllDispatched
    /\ \A t \in Threads : threads[t].pc = "done"

\* C19: when the PUTs of a trace of PUT records on distinct ids have all ended
\* and every request was answered with the plain success, every PUT stored, the
\* mapping holds exactly the ids of the trace, each with the location assigned
\* to its own PUT, and no two ids share a location.
C19_NoLostInsertion ==
    (DistinctPuts /\ AllEnded /\ faults = 0) =>
        /\ \A t \in Threads : threads[t].outcome = "stored" /\ threads[t].exc = "none"
        /\ DOMAIN object_mappings = {trace[k].id : k \in 1..Len(trace)}
        /\ \A t \in Threads : object_mappings[threads[t].id] = threads[t].loc
        /\ \A i, j \in DOMAIN object_mappings :
              i # j => object_mappings[i] # object_mappings[j]

\* the PUTs of a and b, started together, both ended and both ids are mapped
C19_Witness ==
    /\ DistinctPuts /\ AllEnded /\ faults = 0
    /\ Len(threads) = 2
    /\ DOMAIN object_mappings = Ids
    /\ object_mappings["a"] # object_mappings["b"]

\* what the run holds for object id i: its Placement, its staged payload and
\* the locals of the operations on it
Of(i, m, p, f, ths) ==
    [placement |-> IF i \in DOMAIN m THEN m[i] ELSE NoLoc,
     staged |-> i \in p,
     file |-> IF i \in DOMAIN f THEN f[i] ELSE 0,
     ops |-> [t \in {u \in 1..Len(ths) : ths[u].id = i} |-> ths[t]]]

\* C20: a step of an operation on one object id changes nothing of any other
\* id: not its Placement, not its staged payload, not an operation on it; the
\* Placement of an id is the one its own operations left.
C20_OtherIdsUntouched ==
    /\ [][\A t \in Threads :
            Steps(t) =>
                \A i \in Ids \ {threads[t].id} :
                    Of(i, object_mappings', prepared_files', files', threads')
                      = Of(i, object_mappings, prepared_files, files, threads)]_vars
    /\ [](\A i \in Ids :
            /\ (i \in DOMAIN object_mappings => object_mappings[i] = last_write[i].loc)
            /\ (last_write[i].kind # "none" =>
                    \E t \in Threads : threads[t].id = i /\ threads[t].loc = last_write[i].loc))

\* the Placement of a stands, stored while a PUT and a DELETE of b ran
C20_Witness ==
    \E p, q, d \in Threads :
        /\ threads[p].op = PUT /\ threads[p].id = "a" /\ threads[p].outcome = "stored"
        /\ threads[q].op = PUT /\ threads[q].id = "b" /\ threads[q].outcome = "stored"
        /\ threads[d].op = DELETE /\ threads[d].id = "b" /\ threads[d].outcome = "deleted"
        /\ p < q /\ q < d
        /\ DOMAIN object_mappings = {"a"}
        /\ object_mappings["a"] = threads[p].loc

\* the loop body handles the first record of the run: no origin is fixed yet
FixesOrigin == ComputesWait /\ start_time = NoTime

\* C21: the record that finds no origin fixes it at (clock reading - its
\* timestamp) and is dispatched at once, without a wait; from then on, while
\* the loop runs, the origin stays as it is and the target of every record is
\* origin + its timestamp.
C21_OriginFixedOnce ==
    /\ [][FixesOrigin =>
            /\ start_time' + CurLine.ts = now
            /\ wait_time' = 0 /\ main_pc' # "sleep" /\ ~slept'
            /\ li' = li + 1]_vars
    /\ [][(start_time # NoTime /\ main_pc' # "join") => start_time' = start_time]_vars
    /\ [][ComputesWait => target_time' = start_time' + CurLine.ts]_vars
    /\ []((main_pc \in {"for_line", "sleep"} /\ start_time = NoTime) => threads = <<>>)

\* the first record, with the largest timestamp, fixed the origin; the clock
\* has advanced and two more records have been handled against that origin
C21_Witness ==
    /\ Len(trace) = 3 /\ trace[1].ts = MaxTs /\ trace[3].ts = 1
    /\ main_pc = "for_line" /\ li = 4
    /\ start_time = 0 - MaxTs
    /\ now > 0
    /\ target_time = start_time + 1

\* thread t takes the step that handles the answer to its delete request
DeleteAnswered(t) == threads[t].pc = "delete_response" /\ Steps(t)

C27_PutFindsPayload ==
    \A t \in Threads : threads[t].op = PUT => threads[t].outcome # "no_file"

\* the entry of id i in mapping m (NoLoc: none)
Entry(m, i) == IF i \in DOMAIN m THEN m[i] ELSE NoLoc

\* C28: a step changes the mapping only as the step of a PUT whose upload was
\* answered 2xx, which sets the entry of its id to its assigned location, or as
\* the step of a DELETE answered 200 or 204, which removes the entry of its id;
\* the entries of all other ids stay as they are.
C28_MappingFrame ==
    [][object_mappings' # object_mappings =>
          \E t \in Threads :
              /\ Steps(t)
              /\ \A i \in Ids \ {threads[t].id} :
                    Entry(object_mappings', i) = Entry(object_mappings, i)
              /\ \/ /\ threads[t].op = PUT
                    /\ threads'[t].status \in 200..299
                    /\ Entry(object_mappings', threads[t].id) = threads[t].loc
                 \/ /\ threads[t].op = DELETE
                    /\ threads'[t].status \in {200, 204}
                    /\ threads[t].id \notin DOMAIN object_mappings']_vars

\* C23: the request of a GET carries the Range header of the record's
\* range_start and range_end when the record has both range fields, and no
\* Range header otherwise.
C23_RangeHeader ==
    \A t \in Threads :
        threads[t].op = GET =>
            LET l == trace[threads[t].line] IN
            IF threads[t].reqs >= 1 /\ l.nparts >= 6
            THEN threads[t].range_hdr = <<l.rs, l.re>>
            ELSE threads[t].range_hdr = NoRange

\* a GET of the range 0-1 and a GET with range_start only have both been sent
C23_Witness ==
    /\ Len(threads) = 3
    /\ threads[2].op = GET /\ threads[2].reqs = 1 /\ threads[2].range_hdr = <<0, 1>>
    /\ trace[threads[2].line].nparts = 6
    /\ threads[3].op = GET /\ threads[3].reqs = 1 /\ threads[3].range_hdr = NoRange
    /\ trace[threads[3].line].nparts = 5

\* C29: the file a PUT thread uploads has the size_bytes of the thread's record.
C29_UploadedSizeIsRecordSize ==
    \A t \in Threads :
        (threads[t].op = PUT /\ threads[t].sent > 0) => threads[t].sent = threads[t].size

\* C24: the throughput computed for a transfer is the quotient bytes/elapsed
\* when elapsed > 0 and is 0 when elapsed <= 0; its denominator is never 0.
C24_ThroughputGuarded ==
    call.fn = "throughput" =>
        /\ call.ret.den # 0
        /\ (call.elapsed > 0 => call.ret.num * call.elapsed = call.nbytes * call.ret.den)
        /\ (call.elapsed <= 0 => call.ret.num = 0)

\* bytes were transferred in no time at all: the throughput is 0
C24_Witness ==
    /\ call.fn = "throughput"
    /\ call.elapsed = 0 /\ call.nbytes = MaxBytes
    /\ call.ret.num = 0

\* bytes first..last (counted from 0) of content
Bytes(content, first, last) == [k \in 1..(last - first + 1) |-> content[first + k]]

\* C25: for a range (s, e) with 0 <= s <= e < length of the payload the content
\* a GET expects is the e - s + 1 bytes s..e of the payload that was PUT, for a
\* full GET it is the whole payload, and the verification succeeds exactly
\* when the received bytes equal that content.
C25_ExpectedSlice ==
    call.fn = "verify_content" =>
        LET o == call.original_content
            s == call.range_start
            e == call.range_end
        IN  /\ (call.is_range_request /\ s <= e /\ e < Len(o)) =>
                  /\ call.expected = Bytes(o, s, e)
                  /\ Len(call.expected) = e - s + 1
                  /\ (call.ret <=> call.received = Bytes(o, s, e))
            /\ ~call.is_range_request =>
                  /\ call.expected = o
                  /\ (call.ret <=> call.received = o)

\* the bytes 1..MaxOffset of a payload of MaxContent bytes were asked for and
\* received: the verification succeeded
C25_Witness ==
    /\ call.fn = "verify_content"
    /\ call.is_range_request
    /\ Len(call.original_content) = MaxContent
    /\ call.range_start = 1 /\ call.range_end = MaxOffset
    /\ Len(call.received) = MaxOffset
    /\ call.ret

\* C26: generate_patterned_content(size_bytes) returns size_bytes bytes.
C26_ContentLength ==
    call.fn = "generate_patterned_content" => Len(call.ret) = call.size_bytes

\* the kinds of line the filter tells apart
IsPut(l) == l.nparts >= 3 /\ l.op = PUT
IsGet(l) == l.nparts >= 3 /\ l.op = GET
IsDelete(l) == l.nparts >= 3 /\ l.op = DELETE
IsOther(l) == l.nparts >= 3 /\ l.op \notin {PUT, GET, DELETE}

\* the filter has read the whole input file
Filtered == line_no > Len(infile)

\* line j of out refers to an object that an earlier PUT line of out created
\* and no DELETE line of out in between removed
RefersToLive(out, j) ==
    \E p \in 1..(j - 1) :
        /\ IsPut(out[p]) /\ out[p].id = out[j].id
        /\ \A d \in (p + 1)..(j - 1) : ~(IsDelete(out[d]) /\ out[d].id = out[j].id)

\* out is inp with some lines left out
IsSubSeq(out, inp) ==
    \E f \in [1..Len(out) -> 1..Len(inp)] :
        /\ \A j, k \in 1..Len(out) : j < k => f[j] < f[k]
        /\ \A j \in 1..Len(out) : inp[f[j]] = out[j]

\* the ids with a Placement after the lines 1..n of out are replayed one by one
\* with every operation succeeding
RECURSIVE LiveAfter(_, _)
LiveAfter(out, n) ==
    IF n = 0 THEN {}
    ELSE LET live == LiveAfter(out, n - 1) IN
         IF IsPut(out[n]) /\ out[n].nparts >= 4 THEN live \cup {out[n].id}
         ELSE IF IsDelete(out[n]) THEN live \ {out[n].id}
         ELSE live

\* every PUT line of out is one the replay executes
PutsReplayable(out) == \A j \in 1..Len(out) : IsPut(out[j]) => out[j].nparts >= 4

\* C30: the output of the filter is the input with lines left out, in order;
\* each GET or DELETE line of it refers to an object of an earlier PUT line of
\* it not deleted in between; when the input is read, every PUT line and every
\* line of another operation is in it; and no GET or DELETE of its sequential
\* replay, with its PUTs executed and every operation succeeding, finds its
\* object unknown.
C30_FilterKeepsValid ==
    /\ IsSubSeq(outfile, SubSeq(infile, 1, line_no - 1))
    /\ \A j \in 1..Len(outfile) :
          /\ outfile[j].nparts >= 3
          /\ (IsGet(outfile[j]) \/ IsDelete(outfile[j])) => RefersToLive(outfile, j)
    /\ Filtered =>
          Cardinality({j \in 1..Len(outfile) : IsPut(outfile[j]) \/ IsOther(outfile[j])})
            = Cardinality({k \in 1..Len(infile) : IsPut(infile[k]) \/ IsOther(infile[k])})
    /\ PutsReplayable(outfile) =>
          \A j \in 1..Len(outfile) :
              (IsGet(outfile[j]) \/ IsDelete(outfile[j])) =>
                  outfile[j].id \in LiveAfter(outfile, j - 1)

\* PUT a, DELETE a, GET a, PUT a was filtered: the GET of the deleted object
\* is left out, the other three lines are kept
C30_Witness ==
    /\ Filtered /\ Len(infile) = 4
    /\ IsPut(infile[1]) /\ IsDelete(infile[2]) /\ IsGet(infile[3]) /\ IsPut(infile[4])
    /\ \A k \in 1..4 : infile[k].id = "a"
    /\ outfile = <<infile[1], infile[2], infile[4]>>
    /\ existing_objects = {"a"}

\* Every thread that can take a step is eventually run, every request is
\* eventually answered (or raises), and time.sleep returns.
FairSpec == Spec /\ WF_vars(Next)
====
